---------------------------- MODULE Spec2Model ----------------------------
(***************************************************************************)
(* Model of the hybrid SEO engine of src/public/seo3.py: the Trie, the     *)
(* hierarchy Node tree, the RBTree and the HybridSEOSystem that owns one   *)
(* of each plus the analysis log, as driven by the Flask handlers of       *)
(* src/public/seo3.py and src/seo_project/app.py.                          *)
(*                                                                         *)
(* Characters are their code points (so "title" is <<116,105,116,108,101>>)*)
(* and a Python dict is the sequence of its keys in insertion order.       *)
(***************************************************************************)
EXTENDS Integers, Sequences, FiniteSets, TLC

VARIABLES
    trie,              \* hybrid_seo.trie: path |-> [children, is_end_of_word]
    hierarchy,         \* hybrid_seo.hierarchy: the root Node
    rank_tree,         \* hybrid_seo.rank_tree.root
    analysis_results,  \* hybrid_seo.analysis_results
    last_op,           \* the last call made on the system and how it ended
    mark,              \* history: Len(analysis_results) at the last reset
    words,             \* history: the words given to Trie.insert, in call order
    inserted,          \* history: the entries given to RBTree.insert, in call order
    pc,                \* per request thread: the statement it is about to run
    cur                \* per request thread: <<page>> while fetch_and_analyze works on it

vars == <<trie, hierarchy, rank_tree, analysis_results, last_op, mark, words,
          inserted, pc, cur>>

(***************************************************************************)
(* Bounds of the model.                                                    *)
(***************************************************************************)
MaxWordLen == 2    \* longest word given to the trie on its own
MaxWords == 3      \* insert calls on the trie on its own
MaxInserts == 3    \* insert calls on the rank tree on its own
MaxItems == 2      \* search results handled by one atomic search_webpages
MaxLog == 3        \* analysed pages kept in the log
MaxChildren == 6   \* fetch_and_analyze starts only below this many children
MaxConcChildren == 3   \* the same, for a request thread
MaxConcLog == 2    \* analysed pages kept in the log by the request threads

(***************************************************************************)
(* Helpers.                                                                *)
(***************************************************************************)
Range(s) == {s[i] : i \in 1..Len(s)}

IsPrefix(p, w) == Len(p) <= Len(w) /\ SubSeq(w, 1, Len(p)) = p

None == "None"

(***************************************************************************)
(* Trie (lines 6-37).  A node is named by the path of characters that      *)
(* leads to it; the root is <<>>.                                          *)
(***************************************************************************)
TrieNode == [children |-> <<>>, is_end_of_word |-> FALSE]

Trie == (<<>> :> TrieNode)

RECURSIVE insert_from(_, _, _)
insert_from(t, word, i) ==
    IF i > Len(word)
    THEN [t EXCEPT ![word].is_end_of_word = TRUE]
    ELSE LET node == SubSeq(word, 1, i - 1)
             char == word[i]
             child == SubSeq(word, 1, i)
         IN  IF char \notin Range(t[node].children)
             THEN insert_from((child :> TrieNode) @@
                                [t EXCEPT ![node].children = Append(@, char)],
                              word, i + 1)
             ELSE insert_from(t, word, i + 1)

Trie_insert(t, word) == insert_from(t, word, 1)

RECURSIVE collect_words(_, _)
RECURSIVE collect_children(_, _, _)
collect_words_always(t, prefix) ==
    <<prefix>> \o collect_children(t, prefix, 1)

collect_words(t, prefix) ==
    (IF t[prefix].is_end_of_word THEN <<prefix>> ELSE <<>>)
        \o collect_children(t, prefix, 1)

collect_children(t, prefix, k) ==
    IF k > Len(t[prefix].children)
    THEN <<>>
    ELSE collect_words(t, Append(prefix, t[prefix].children[k]))
            \o collect_children(t, prefix, k + 1)

RECURSIVE search_from(_, _, _)
search_from(t, prefix, i) ==
    IF i > Len(prefix)
    THEN collect_words(t, prefix)
    ELSE IF prefix[i] \notin Range(t[SubSeq(prefix, 1, i - 1)].children)
         THEN <<>>
         ELSE search_from(t, prefix, i + 1)

Trie_search(t, prefix) == search_from(t, prefix, 1)

(***************************************************************************)
(* Hierarchy Node (lines 40-47).                                           *)
(***************************************************************************)
Node(tag, content) == [tag |-> tag, content |-> content, children |-> <<>>]

add_child(node, child_node) == [node EXCEPT !.children = Append(@, child_node)]

(***************************************************************************)
(* RBTree (lines 50-86).  A tree is <<>> (None) or <<node>>.               *)
(***************************************************************************)
Nil == <<>>

RBTreeNode(tag, relevance, color) ==
    [tag |-> tag, relevance |-> relevance, color |-> color,
     left |-> Nil, right |-> Nil]

RECURSIVE insert_recursive(_, _)
insert_recursive(current, node) ==
    IF current = Nil
    THEN <<node>>
    ELSE LET c == current[1]
         IN  IF node.relevance < c.relevance
             THEN <<[c EXCEPT !.left = insert_recursive(c.left, node)]>>
             ELSE IF node.relevance > c.relevance
                  THEN <<[c EXCEPT !.right = insert_recursive(c.right, node)]>>
                  ELSE current

RBTree_insert(root, tag, relevance) ==
    LET new_node == RBTreeNode(tag, relevance, "red")
    IN  IF root = Nil
        THEN <<[new_node EXCEPT !.color = "black"]>>
        ELSE insert_recursive(root, new_node)

RECURSIVE in_order_traversal(_)
in_order_traversal(node) ==
    IF node = Nil
    THEN <<>>
    ELSE in_order_traversal(node[1].left)
            \o <<[tag |-> node[1].tag, relevance |-> node[1].relevance]>>
            \o in_order_traversal(node[1].right)


(***************************************************************************)
(* The fixed labels and weights of fetch_and_analyze (lines 141-160).      *)
(***************************************************************************)
TitleLabel == <<116, 105, 116, 108, 101>>                    \* "title"
DescLabel == <<109, 101, 116, 97, 32, 100, 101, 115, 99, 114, 105, 112,
               116, 105, 111, 110>>                          \* "meta description"
OgLabel == <<111, 103, 32, 116, 105, 116, 108, 101>>         \* "og title"

TitleRelevance == 10
DescRelevance == 8
OgRelevance == 6

(***************************************************************************)
(* What requests.get and BeautifulSoup give for a page: the fetch raises   *)
(* RequestException (status "error") or returns a document in which each   *)
(* of <title>, <meta name=description> and <meta property=og:title> is     *)
(* missing ("NoTag"), present without a content attribute ("NoAttr": the   *)
(* subscript ['content'] raises KeyError) or present with its text.        *)
(***************************************************************************)
PageFull == [url |-> "u1", status |-> "ok", title |-> "T1", desc |-> "D1", og |-> "O1"]
PageBare == [url |-> "u2", status |-> "ok", title |-> "NoTag", desc |-> "NoTag", og |-> "NoTag"]
PageBadMeta == [url |-> "u3", status |-> "ok", title |-> "T3", desc |-> "NoAttr", og |-> "O3"]
PageBadOg == [url |-> "u4", status |-> "ok", title |-> "T4", desc |-> "D4", og |-> "NoAttr"]
PageDown == [url |-> "u5", status |-> "error", title |-> "NoTag", desc |-> "NoTag", og |-> "NoTag"]

Pages == {PageFull, PageBare, PageBadMeta, PageBadOg, PageDown}

title_content(page) ==
    IF page.title = "NoTag" THEN "No title tag found" ELSE page.title

desc_content(page) ==
    IF page.desc = "NoTag" THEN "No meta description found" ELSE page.desc

og_title_content(page) ==
    IF page.og = "NoTag" THEN "No Open Graph title found" ELSE page.og

result_record(page) ==
    [url |-> page.url, title |-> title_content(page),
     meta_description |-> desc_content(page), og_title |-> og_title_content(page)]

(***************************************************************************)
(* HybridSEOSystem (lines 89-170) as functions of the four fields.         *)
(***************************************************************************)
HybridSEOSystem ==
    [trie |-> Trie, hierarchy |-> Node("SEO Elements", None),
     rank_tree |-> Nil, analysis_results |-> <<>>]

reset_keeps_rank_tree(st) ==
    [st EXCEPT !.hierarchy = Node("SEO Elements", None)]

reset(st) ==
    [st EXCEPT !.hierarchy = Node("SEO Elements", None), !.rank_tree = Nil]

\* One element kind: lines 141-144, 149-152 or 157-160.
add_element(st, tag, content, label, rank_tag, relevance) ==
    [st EXCEPT !.hierarchy = add_child(@, Node(tag, content)),
               !.trie = Trie_insert(@, label),
               !.rank_tree = RBTree_insert(@, rank_tag, relevance)]

store_results_in_front(st, page) ==
    [st EXCEPT !.analysis_results = <<result_record(page)>> \o @]

store_results(st, page) ==
    [st EXCEPT !.analysis_results = Append(@, result_record(page))]

\* The whole of fetch_and_analyze: the state it leaves and how it ended:
\* "caught" (RequestException, printed), "raised" (KeyError leaves the
\* method) or "stored".
fetch_and_analyze(st, page) ==
    IF page.status = "error"
    THEN [st |-> st, outcome |-> "caught"]
    ELSE LET s1 == add_element(st, "Title", title_content(page),
                               TitleLabel, "Title", TitleRelevance)
         IN  IF page.desc = "NoAttr"
             THEN [st |-> s1, outcome |-> "raised"]
             ELSE LET s2 == add_element(s1, "Meta Description", desc_content(page),
                                        DescLabel, "Meta Description", DescRelevance)
                  IN  IF page.og = "NoAttr"
                      THEN [st |-> s2, outcome |-> "raised"]
                      ELSE [st |-> store_results(
                                     add_element(s2, "Open Graph Title",
                                                 og_title_content(page), OgLabel,
                                                 "OG Title", OgRelevance),
                                     page),
                            outcome |-> "stored"]

\* The loop of search_webpages (lines 108-117) over the result links: it
\* ends at the first exception that leaves fetch_and_analyze.
RECURSIVE analyze_items(_, _, _)
analyze_items(st, items, i) ==
    IF i > Len(items)
    THEN [st |-> st, outcome |-> "returned"]
    ELSE LET r == fetch_and_analyze(st, items[i])
         IN  IF r.outcome = "raised"
             THEN r
             ELSE analyze_items(r.st, items, i + 1)

search_webpages(st, items) == analyze_items(reset(st), items, 1)

(***************************************************************************)
(* The system as one sequential caller sees it.                            *)
(***************************************************************************)
St ==
    [trie |-> trie, hierarchy |-> hierarchy, rank_tree |-> rank_tree,
     analysis_results |-> analysis_results]

Becomes(st) ==
    /\ trie' = st.trie
    /\ hierarchy' = st.hierarchy
    /\ rank_tree' = st.rank_tree
    /\ analysis_results' = st.analysis_results

Threads == {1, 2}

Init ==
    /\ trie = HybridSEOSystem.trie
    /\ hierarchy = HybridSEOSystem.hierarchy
    /\ rank_tree = HybridSEOSystem.rank_tree
    /\ analysis_results = HybridSEOSystem.analysis_results
    /\ last_op = <<"init", "returned">>
    /\ mark = 0
    /\ words = <<>>
    /\ inserted = <<>>
    /\ pc = [s \in Threads |-> "idle"]
    /\ cur = [s \in Threads |-> <<>>]

Reset ==
    /\ Becomes(reset(St))
    /\ last_op' = <<"reset", "returned">>
    /\ mark' = Len(analysis_results)
    /\ UNCHANGED <<words, inserted, pc, cur>>

FetchAndAnalyze(page) ==
    /\ Len(hierarchy.children) < MaxChildren
    /\ Len(analysis_results) < MaxLog
    /\ LET r == fetch_and_analyze(St, page)
       IN  /\ Becomes(r.st)
           /\ last_op' = <<"fetch_and_analyze", r.outcome>>
    /\ UNCHANGED <<mark, words, inserted, pc, cur>>

ItemLists == UNION {[1..n -> Pages] : n \in 0..MaxItems}

SearchWebpages(items) ==
    /\ Len(analysis_results) + Len(items) <= MaxLog
    /\ LET r == search_webpages(St, items)
       IN  /\ Becomes(r.st)
           /\ last_op' = <<"search_webpages", r.outcome>>
    /\ mark' = Len(analysis_results)
    /\ UNCHANGED <<words, inserted, pc, cur>>

Next ==
    \/ Reset
    \/ \E page \in Pages : FetchAndAnalyze(page)
    \/ \E items \in ItemLists : SearchWebpages(items)

Spec == Init /\ [][Next]_vars


(***************************************************************************)
(* The Trie on its own: any words over a small alphabet, in any order and  *)
(* with repetitions, are inserted into the system's trie.                  *)
(***************************************************************************)
Alphabet == {97, 98}                                         \* "a", "b"

TrieWords == UNION {[1..n -> Alphabet] : n \in 0..MaxWordLen}

Probes == UNION {[1..n -> Alphabet] : n \in 0..(MaxWordLen + 1)}

TrieInsertCall(w) ==
    /\ Len(words) < MaxWords
    /\ trie' = Trie_insert(trie, w)
    /\ words' = Append(words, w)
    /\ UNCHANGED <<hierarchy, rank_tree, analysis_results, last_op, mark,
                   inserted, pc, cur>>

NextTrie == \E w \in TrieWords : TrieInsertCall(w)

SpecTrie == Init /\ [][NextTrie]_vars

(***************************************************************************)
(* The RBTree on its own: any (tag, relevance) entries, in any order and   *)
(* with repeated relevances, are inserted into the system's rank tree.     *)
(***************************************************************************)
Tags == {"Title", "Meta Description", "OG Title"}

Relevances == {TitleRelevance, DescRelevance, OgRelevance}

RBInsertCall(tag, relevance) ==
    /\ Len(inserted) < MaxInserts
    /\ rank_tree' = RBTree_insert(rank_tree, tag, relevance)
    /\ inserted' = Append(inserted, [tag |-> tag, relevance |-> relevance])
    /\ UNCHANGED <<trie, hierarchy, analysis_results, last_op, mark, words,
                   pc, cur>>

NextRB == \E tag \in Tags, relevance \in Relevances : RBInsertCall(tag, relevance)

SpecRB == Init /\ [][NextRB]_vars

(***************************************************************************)
(* Measures of a rank tree used by the properties below.                   *)
(***************************************************************************)
Max(a, b) == IF a >= b THEN a ELSE b

RECURSIVE Size(_)
Size(t) == IF t = Nil THEN 0 ELSE 1 + Size(t[1].left) + Size(t[1].right)

RECURSIVE Height(_)
Height(t) == IF t = Nil THEN 0 ELSE 1 + Max(Height(t[1].left), Height(t[1].right))

RECURSIVE AllColoured(_)
AllColoured(t) ==
    t = Nil \/ ( /\ t[1].color \in {"red", "black"}
                 /\ AllColoured(t[1].left)
                 /\ AllColoured(t[1].right) )

IsRed(t) == t # Nil /\ t[1].color = "red"

RECURSIVE NoRedRed(_)
NoRedRed(t) ==
    t = Nil \/ ( /\ IsRed(t) => (~IsRed(t[1].left) /\ ~IsRed(t[1].right))
                 /\ NoRedRed(t[1].left)
                 /\ NoRedRed(t[1].right) )

\* The number of black nodes on every path from t down to a nil leaf (the
\* nil leaf counted as black), or -1 when two paths disagree.
RECURSIVE BlackHeight(_)
BlackHeight(t) ==
    IF t = Nil
    THEN 1
    ELSE LET l == BlackHeight(t[1].left)
             r == BlackHeight(t[1].right)
         IN  IF l = -1 \/ r = -1 \/ l # r
             THEN -1
             ELSE l + (IF t[1].color = "black" THEN 1 ELSE 0)

\* seq sorted by relevance, entries of equal relevance in their order in seq.
RECURSIVE StableSorted(_)
StableSorted(seq) ==
    IF seq = <<>>
    THEN <<>>
    ELSE LET n == Len(seq)
             e == seq[n]
             front == StableSorted(SubSeq(seq, 1, n - 1))
             k == Cardinality({i \in 1..Len(front) : front[i].relevance <= e.relevance})
         IN  SubSeq(front, 1, k) \o <<e>> \o SubSeq(front, k + 1, Len(front))

Count(seq, relevance) == Cardinality({i \in 1..Len(seq) : seq[i].relevance = relevance})

\* C1: after any sequence of insert calls the in-order enumeration holds
\* every inserted entry (none dropped), in non-decreasing relevance, entries
\* of equal relevance in their insertion order.
C1_InOrderYieldsAllStable ==
    LET r == in_order_traversal(rank_tree)
    IN  /\ Len(r) = Len(inserted)
        /\ \A i \in 1..Len(r), j \in 1..Len(r) :
               i < j => r[i].relevance <= r[j].relevance
        /\ r = StableSorted(inserted)

\* C2: after any sequence of insert calls the tree is a red-black tree:
\* every node red or black, the root black, no red node with a red child,
\* the same number of black nodes on every path to a nil leaf; and its
\* height h satisfies h <= 2*log2(n+1), that is 2^h <= (n+1)^2.
C2_RedBlackInvariants ==
    /\ AllColoured(rank_tree)
    /\ ~IsRed(rank_tree)
    /\ NoRedRed(rank_tree)
    /\ BlackHeight(rank_tree) # -1
    /\ 2 ^ Height(rank_tree) <= (Size(rank_tree) + 1) * (Size(rank_tree) + 1)

(***************************************************************************)
(* Properties of the Trie.                                                 *)
(***************************************************************************)
NoDuplicates(seq) == Cardinality(Range(seq)) = Len(seq)

\* C5: search(p) returns exactly the inserted words that begin with p, each
\* once; search("") returns every inserted word; a prefix with no path in
\* the trie gives the empty sequence.
C5_SearchExactPrefixSet ==
    /\ \A p \in Probes :
          LET r == Trie_search(trie, p)
          IN  /\ Range(r) = {w \in Range(words) : IsPrefix(p, w)}
              /\ NoDuplicates(r)
              /\ (p \notin DOMAIN trie => r = <<>>)
    /\ Range(Trie_search(trie, <<>>)) = Range(words)

\* C5's case: a word inserted twice beside another word, one probe that
\* selects a proper non-empty part of the words and one with no path.
C5_Witness ==
    /\ Len(words) = 3
    /\ words[1] = words[3]
    /\ words[1] # words[2]
    /\ \E p \in Probes : Len(Trie_search(trie, p)) = 1
    /\ \E p \in Probes : p \notin DOMAIN trie /\ Trie_search(trie, p) = <<>>
    /\ Len(Trie_search(trie, <<>>)) = 2

Reverse(seq) == [i \in 1..Len(seq) |-> seq[Len(seq) + 1 - i]]

RECURSIVE TrieOf(_)
TrieOf(seq) ==
    IF seq = <<>>
    THEN Trie
    ELSE Trie_insert(TrieOf(SubSeq(seq, 1, Len(seq) - 1)), seq[Len(seq)])

\* a before b in dictionary order of code points, a prefix before its extensions.
LexLess(a, b) ==
    \/ Len(a) < Len(b) /\ IsPrefix(a, b)
    \/ \E k \in 1..Len(a) :
          /\ k <= Len(b)
          /\ SubSeq(a, 1, k - 1) = SubSeq(b, 1, k - 1)
          /\ a[k] < b[k]

\* C8: the order of search(p) does not depend on the insertion order (the
\* same words inserted in the opposite order give the same sequence) and
\* children are visited in ascending code point.
C8_SearchOrderFixed ==
    \A p \in Probes :
        LET r == Trie_search(trie, p)
        IN  /\ r = Trie_search(TrieOf(Reverse(words)), p)
            /\ \A i \in 1..(Len(r) - 1) : LexLess(r[i], r[i + 1])


(***************************************************************************)
(* Properties of the HybridSEOSystem under one sequential caller.          *)
(***************************************************************************)
Ranked == in_order_traversal(rank_tree)

Indexed(t) == Range(Trie_search(t, <<>>))

FixedLabels == {TitleLabel, DescLabel, OgLabel}

Stored == <<"fetch_and_analyze", "stored">>

\* C3: from any reachable state, one populate of a record with all three
\* fields present appends exactly 3 hierarchy children, leaves the three
\* fixed labels (and nothing else new) in the trie, adds exactly 3 rank
\* entries, one each of weight 10, 8 and 6, and appends exactly 1 log record.
C3_PopulateAddsThreeOfEach ==
    [][ ( /\ last_op' = Stored
          /\ analysis_results' # <<>>
          /\ analysis_results'[Len(analysis_results')] = result_record(PageFull) )
        => ( /\ Len(hierarchy'.children) = Len(hierarchy.children) + 3
             /\ Indexed(trie') = Indexed(trie) \cup FixedLabels
             /\ Len(in_order_traversal(rank_tree')) = Len(Ranked) + 3
             /\ \A w \in Relevances :
                   Count(in_order_traversal(rank_tree'), w) = Count(Ranked, w) + 1
             /\ Len(analysis_results') = Len(analysis_results) + 1 ) ]_vars

\* C4: from any reachable state reset() leaves the rank tree empty (the
\* ranked results are the empty sequence) and the hierarchy a childless
\* "SEO Elements" root, and leaves the trie and the analysis log as they were.
C4_ResetFrame ==
    [][ last_op' = <<"reset", "returned">>
        => ( /\ rank_tree' = Nil
             /\ in_order_traversal(rank_tree') = <<>>
             /\ hierarchy' = [tag |-> "SEO Elements", content |-> None,
                              children |-> <<>>]
             /\ trie' = trie
             /\ analysis_results' = analysis_results ) ]_vars

\* C4's case: a reset has just run on a system that had analysed pages.
C4_Witness ==
    /\ last_op = <<"reset", "returned">>
    /\ analysis_results # <<>>
    /\ Indexed(trie) = FixedLabels
    /\ hierarchy.children = <<>>
    /\ Ranked = <<>>

\* C6: after two populates in one session (no reset between them) the
\* ranked results hold two adjacent "Title" entries of relevance 10, and
\* both come before the Meta Description (8) and OG Title (6) entries.
C6_TwoTitlesAdjacentFirst ==
    ( /\ Len(analysis_results) - mark = 2
      /\ Len(hierarchy.children) = 6 )
    => \E i \in 1..(Len(Ranked) - 1) :
          /\ Ranked[i] = [tag |-> "Title", relevance |-> TitleRelevance]
          /\ Ranked[i + 1] = [tag |-> "Title", relevance |-> TitleRelevance]
          /\ \A j \in 1..Len(Ranked) :
                Ranked[j].tag \in {"Meta Description", "OG Title"} => j > i + 1

\* C9: a fetch_and_analyze that fails (the fetch raises, or a field's
\* extraction raises part-way) leaves hierarchy, trie, rank tree and log as
\* they were; so the hierarchy root always has 3 children per record
\* logged since the last reset.
C9_AnalysisAllOrNothing ==
    [][ /\ ( ( /\ last_op'[1] = "fetch_and_analyze"
               /\ last_op'[2] \in {"caught", "raised"} )
             => UNCHANGED <<trie, hierarchy, rank_tree, analysis_results>> )
        /\ Len(hierarchy'.children) = 3 * (Len(analysis_results') - mark') ]_vars

\* C10: the log is append-only: every step leaves the old log a prefix of
\* the new one, a page analysed to the end adds exactly its one record at
\* the end, and no step (a reset, a new search) ever shortens it.
C10_LogAppendOnly ==
    [][ /\ IsPrefix(analysis_results, analysis_results')
        /\ last_op' = Stored
              => \E page \in Pages :
                    analysis_results' = Append(analysis_results, result_record(page)) ]_vars

\* C10's case: records logged before a reset are still there, in place,
\* after it, with records of the next session appended behind them.
C10_Witness ==
    /\ mark \in 1..(Len(analysis_results) - 1)
    /\ Len(analysis_results) >= 3
    /\ analysis_results[1] # analysis_results[Len(analysis_results)]


(***************************************************************************)
(* Two request threads of the Flask server on the one shared hybrid_seo    *)
(* (lines 192-211).  Nothing in search_webpages takes a lock, so the       *)
(* threads interleave between its statements; pc names the line a thread   *)
(* runs next.                                                              *)
(***************************************************************************)
NextLine ==
    [L142 |-> "L143", L143 |-> "L144", L144 |-> "L148", L148 |-> "L150",
     L150 |-> "L151", L151 |-> "L152", L152 |-> "L156", L156 |-> "L158",
     L158 |-> "L159", L159 |-> "L160", L160 |-> "L163", L163 |-> "loop"]

Goto(t, line) == pc' = [pc EXCEPT ![t] = line]

\* Line 97, the first statement of reset(), run by a request that arrives.
ResetHierarchyLocked(t) ==
    /\ pc[t] = "idle"
    /\ \A s \in Threads \ {t} : pc[s] = "idle"
    /\ hierarchy' = Node("SEO Elements", None)
    /\ Goto(t, "L98")
    /\ UNCHANGED <<trie, rank_tree, analysis_results, last_op, mark, words,
                   inserted, cur>>

ResetHierarchy(t) ==
    /\ pc[t] = "idle"
    /\ hierarchy' = Node("SEO Elements", None)
    /\ Goto(t, "L98")
    /\ UNCHANGED <<trie, rank_tree, analysis_results, last_op, mark, words,
                   inserted, cur>>

\* Line 98.
ResetRankTree(t) ==
    /\ pc[t] = "L98"
    /\ rank_tree' = Nil
    /\ mark' = Len(analysis_results)
    /\ Goto(t, "loop")
    /\ UNCHANGED <<trie, hierarchy, analysis_results, last_op, words,
                   inserted, cur>>

\* Line 119: no result link is left.
Return(t) ==
    /\ pc[t] = "loop"
    /\ Goto(t, "idle")
    /\ UNCHANGED <<trie, hierarchy, rank_tree, analysis_results, last_op,
                   mark, words, inserted, cur>>

\* Lines 116, 135-141: the next link's page is fetched and parsed; a
\* RequestException is caught at line 169 and the loop goes on.
Get(t, page) ==
    /\ pc[t] = "loop"
    /\ Len(hierarchy.children) < MaxConcChildren
    /\ Len(analysis_results) < MaxConcLog
    /\ IF page.status = "error"
       THEN UNCHANGED <<pc, cur>>
       ELSE Goto(t, "L142") /\ cur' = [cur EXCEPT ![t] = <<page>>]
    /\ UNCHANGED <<trie, hierarchy, rank_tree, analysis_results, last_op,
                   mark, words, inserted>>

\* Lines 142, 150, 158.
AddChildStep(t) ==
    /\ pc[t] \in {"L142", "L150", "L158"}
    /\ hierarchy' = add_child(hierarchy,
          CASE pc[t] = "L142" -> Node("Title", title_content(cur[t][1]))
            [] pc[t] = "L150" -> Node("Meta Description", desc_content(cur[t][1]))
            [] pc[t] = "L158" -> Node("Open Graph Title", og_title_content(cur[t][1])))
    /\ Goto(t, NextLine[pc[t]])
    /\ UNCHANGED <<trie, rank_tree, analysis_results, last_op, mark, words,
                   inserted, cur>>

\* Lines 143, 151, 159.
TrieStep(t) ==
    /\ pc[t] \in {"L143", "L151", "L159"}
    /\ trie' = Trie_insert(trie,
          CASE pc[t] = "L143" -> TitleLabel
            [] pc[t] = "L151" -> DescLabel
            [] pc[t] = "L159" -> OgLabel)
    /\ Goto(t, NextLine[pc[t]])
    /\ UNCHANGED <<hierarchy, rank_tree, analysis_results, last_op, mark,
                   words, inserted, cur>>

\* Lines 144, 152, 160.
RankStep(t) ==
    /\ pc[t] \in {"L144", "L152", "L160"}
    /\ rank_tree' =
          CASE pc[t] = "L144" -> RBTree_insert(rank_tree, "Title", TitleRelevance)
            [] pc[t] = "L152" -> RBTree_insert(rank_tree, "Meta Description", DescRelevance)
            [] pc[t] = "L160" -> RBTree_insert(rank_tree, "OG Title", OgRelevance)
    /\ Goto(t, NextLine[pc[t]])
    /\ UNCHANGED <<trie, hierarchy, analysis_results, last_op, mark, words,
                   inserted, cur>>

\* Lines 148 and 156: a tag without a content attribute raises KeyError,
\* which leaves fetch_and_analyze and search_webpages and ends the request.
ExtractStep(t) ==
    /\ pc[t] \in {"L148", "L156"}
    /\ IF (pc[t] = "L148" /\ cur[t][1].desc = "NoAttr")
          \/ (pc[t] = "L156" /\ cur[t][1].og = "NoAttr")
       THEN Goto(t, "idle") /\ cur' = [cur EXCEPT ![t] = <<>>]
       ELSE Goto(t, NextLine[pc[t]]) /\ UNCHANGED cur
    /\ UNCHANGED <<trie, hierarchy, rank_tree, analysis_results, last_op,
                   mark, words, inserted>>

\* Lines 163-168.
StoreStep(t) ==
    /\ pc[t] = "L163"
    /\ analysis_results' = Append(analysis_results, result_record(cur[t][1]))
    /\ Goto(t, "loop")
    /\ cur' = [cur EXCEPT ![t] = <<>>]
    /\ UNCHANGED <<trie, hierarchy, rank_tree, last_op, mark, words, inserted>>

NextConc ==
    \E t \in Threads :
        \/ ResetHierarchy(t)
        \/ ResetRankTree(t)
        \/ Return(t)
        \/ \E page \in Pages : Get(t, page)
        \/ AddChildStep(t)
        \/ TrieStep(t)
        \/ RankStep(t)
        \/ ExtractStep(t)
        \/ StoreStep(t)

SpecConc == Init /\ [][NextConc]_vars


(***************************************************************************)
(* Properties of the two request threads.                                  *)
(***************************************************************************)
\* Thread s has put at least the Title node of its page into the hierarchy
\* and has not yet logged the page.
MidPopulate(s) ==
    pc[s] \in {"L143", "L144", "L148", "L150", "L151", "L152", "L156",
               "L158", "L159", "L160", "L163"}

\* C7: reset and populate of two sessions are not mutually excluded: while
\* one thread is in the middle of fetch_and_analyze, a request arriving on
\* the other thread can run reset(), both of its statements.
C7_ResetNotExcluded ==
    \A s \in Threads, t \in Threads :
        (s # t /\ MidPopulate(s))
        => /\ pc[t] = "idle" => ENABLED ResetHierarchy(t)
           /\ pc[t] = "L98" => ENABLED ResetRankTree(t)

\* C7's case: the only page ever logged is PageFull, its analysis is over,
\* and yet the hierarchy holds its Meta Description and Open Graph Title
\* nodes without its Title node, and the rank tree its entries of weight 6
\* and 8 without the Title entry: the Title went to the tree and the index
\* that the other thread's reset discarded.
C7_Witness ==
    /\ analysis_results = <<result_record(PageFull)>>
    /\ \A t \in Threads : cur[t] = <<>>
    /\ hierarchy.children =
          << [tag |-> "Meta Description", content |-> "D1", children |-> <<>>],
             [tag |-> "Open Graph Title", content |-> "O1", children |-> <<>>] >>
    /\ Ranked = << [tag |-> "OG Title", relevance |-> OgRelevance],
                   [tag |-> "Meta Description", relevance |-> DescRelevance] >>

=============================================================================
